---- MODULE Spec2Model ----
(***************************************************************************)
(* Model of the sensor gateway of main.go: an HTTP router in front of six  *)
(* handlers that translate requests into writes and Flux queries against a *)
(* time-series store.  The store is modelled by the documented behaviour   *)
(* of the calls the handlers make: a point is identified by its            *)
(* measurement, tag set and timestamp; range/filter/pivot yields one table *)
(* per tag set; sort and limit act on each table separately.               *)
(***************************************************************************)
EXTENDS Integers, Sequences, FiniteSets, TLC

(* ------------------------------ bounds -------------------------------- *)
\* clock ticks per second (timestamps are finer than Unix seconds)
TicksPerSecond == 2
\* largest number of points the store holds
MaxPoints == 2
\* largest number of requests served in one behaviour
MaxRequests == 3

(* ------------------------------- time --------------------------------- *)
Second == TicksPerSecond
Hour == 3600 * Second
\* range(start: -24h) of getSensorData
Range24h == 24 * Hour
\* range(start: -30d) of getSensorDataByID
Range30d == 30 * 24 * Hour
\* the wall clock when the server starts serving
StartTime == 2 * Range30d
\* the zero time.Time: what a body without "timestamp" decodes to
ZeroTime == 0 - 1
IsZero(t) == t = ZeroTime
\* time.Time.Unix(): whole seconds
Unix(t) == t \div TicksPerSecond

\* timestamps a client puts in a body: none, one older than 30 days, one
\* just after the server start (in the future for the first request)
TOld == StartTime - Range30d - Hour
TNear == StartTime + 1
BodyTimes == {ZeroTime, TOld, TNear}

(* ------------------------------ values -------------------------------- *)
Nil == "<nil>"
PathIds == {"a", "b"}
BodyIds == {"", "a"}
\* every body of the model names its location, so every stored point has
\* the location tag and no record makes a handler panic
Locations == {"L1", "L2"}
\* the four measurements of the n-th request's body: every request carries
\* a sample of its own, so that a reading tells which request wrote it
Sample(n) == [temperature |-> 20 + n, humidity |-> 40 + n,
              pressure |-> 1000 + n, altitude |-> 100 + n]
\* decoded request bodies (SensorData); Malformed is a body Decode rejects
Malformed == [malformed |-> TRUE]
Bodies(n) == { [ID |-> i, Timestamp |-> t, Location |-> l, M |-> Sample(n)] :
                 i \in BodyIds, t \in BodyTimes, l \in Locations }
\* outcomes of WritePoint: nil, or an error (the store is unreachable,
\* rejects the write, or the 5 second context expires)
WriteOutcomes == {"ok", "error"}

VARIABLES
  store,       \* the points of measurement sensor_readings in the bucket
  now,         \* the wall clock
  requests,    \* number of requests served
  req,         \* the last request: handler, method, path and inputs
  resp,        \* the response written to it
  calls,       \* store calls issued by the last request
  callFailed,  \* the last request's store call failed or timed out
  handlerRan,  \* the last request reached a route handler
  created      \* the reading of the last successful Create, if no write
               \* was attempted since (a set of at most one reading)

vars == <<store, now, requests, req, resp, calls, callFailed, handlerRan, created>>

(* ----------------------------- responses ------------------------------ *)
\* code -1: the handler panicked and the server closed the connection
\* without a response
NoResponse == [code |-> 0 - 1, status |-> "none", data |-> Nil, cors |-> TRUE]
sendSuccessResponse(statusCode, d) ==
  [code |-> statusCode, status |-> "success", data |-> d, cors |-> TRUE]
sendErrorResponse(statusCode) ==
  [code |-> statusCode, status |-> "error", data |-> Nil, cors |-> TRUE]

(* ------------------------------- store -------------------------------- *)
\* line-protocol encoding of a tag: a tag with an empty value is left out
EncodeTag(v) == IF v = "" THEN Nil ELSE v
\* the point createSensorData and updateSensorData build from a reading
NewPoint(data) ==
  [sensor_id |-> data.ID, location |-> EncodeTag(data.Location),
   time |-> data.Timestamp,
   temperature |-> data.M.temperature, humidity |-> data.M.humidity,
   pressure |-> data.M.pressure, altitude |-> data.M.altitude]
SameSeries(p, q) == p.sensor_id = q.sensor_id /\ p.location = q.location
\* WritePoint: a point of the same series and timestamp is replaced
WritePoint(s, p) == {q \in s : ~(SameSeries(q, p) /\ q.time = p.time)} \cup {p}

(* ------------------------------- queries ------------------------------ *)
\* range(start: -d): points of the last d, up to the time of the query
Range(s, clock, d) == {p \in s : p.time >= clock - d /\ p.time < clock}
\* filter(fn: (r) => r.location == "..."): a row without the tag is dropped
FilterLocation(s, location) == {p \in s : p.location = location}
\* filter(fn: (r) => r.sensor_id == "...")
FilterSensorID(s, id) == {p \in s : p.sensor_id = id}
\* the rows of one table, in the order the store reads them: by time
RECURSIVE Rows(_)
Rows(t) ==
  IF t = {} THEN <<>>
  ELSE LET first == CHOOSE p \in t : \A q \in t : p.time <= q.time
       IN  <<first>> \o Rows(t \ {first})
\* pivot(rowKey: ["_time"], columnKey: ["_field"]): one table per tag set,
\* one row per timestamp carrying the four fields
Pivot(s) == { Rows({p \in s : SameSeries(p, q)}) : q \in s }
\* limit(n: n) on one table: its first n rows
Limit(rows, n) == SubSeq(rows, 1, IF n < Len(rows) THEN n ELSE Len(rows))
\* sort(columns: ["_time"], desc: true) on one table
RECURSIVE InsertDesc(_, _)
InsertDesc(row, sorted) ==
  IF sorted = <<>> THEN <<row>>
  ELSE IF row.time > Head(sorted).time THEN <<row>> \o sorted
  ELSE <<Head(sorted)>> \o InsertDesc(row, Tail(sorted))
RECURSIVE SortDesc(_)
SortDesc(rows) ==
  IF rows = <<>> THEN <<>>
  ELSE InsertDesc(Head(rows), SortDesc(Tail(rows)))
\* the result stream: the rows of the tables one table after the other, the
\* order of the tables being the store's choice
RECURSIVE Streams(_)
Streams(tables) ==
  IF tables = {} THEN {<<>>}
  ELSE UNION { { t \o rest : rest \in Streams(tables \ {t}) } : t \in tables }

\* the query of getSensorData
ListQuery(s, clock, location, limitInt) ==
  LET ranged == Range(s, clock, Range24h)
      filtered == IF location # "" THEN FilterLocation(ranged, location)
                  ELSE ranged
  IN  Streams({ SortDesc(Limit(t, limitInt)) : t \in Pivot(filtered) })
\* the query of getSensorDataByID
ByIDQuery(s, clock, id) ==
  Streams({ Limit(SortDesc(t), 1) :
              t \in Pivot(FilterSensorID(Range(s, clock, Range30d), id)) })

\* record.ValueByKey(...).(string) panics on a column the row does not have
Panics(record) == record.location = Nil
\* faulty variant: humidity and pressure are read from each other's column
FromRecord_swapped(record) ==
  [ID |-> record.sensor_id, Timestamp |-> record.time,
   Location |-> record.location,
   M |-> [temperature |-> record.temperature, humidity |-> record.pressure,
          pressure |-> record.humidity, altitude |-> record.altitude]]
\* the SensorData a handler builds from a record
FromRecord(record) ==
  [ID |-> record.sensor_id, Timestamp |-> record.time,
   Location |-> record.location,
   M |-> [temperature |-> record.temperature, humidity |-> record.humidity,
          pressure |-> record.pressure, altitude |-> record.altitude]]

(* ------------------------------- router ------------------------------- *)
Methods == {"GET", "POST", "PUT", "DELETE", "OPTIONS"}
Collection == "/api/v1/sensor-data"
Item == "/api/v1/sensor-data/{id}"
Paths == {Collection, Item, "/health", "/test", "/other"}
\* the routes main registers, each restricted to one method
Routes ==
  { [path |-> Collection, method |-> "POST", handler |-> "createSensorData"],
    [path |-> Collection, method |-> "GET", handler |-> "getSensorData"],
    [path |-> Item, method |-> "GET", handler |-> "getSensorDataByID"],
    [path |-> Item, method |-> "PUT", handler |-> "updateSensorData"],
    [path |-> Item, method |-> "DELETE", handler |-> "deleteSensorData"],
    [path |-> "/health", method |-> "GET", handler |-> "healthCheck"],
    [path |-> "/test", method |-> "GET", handler |-> "test"] }
\* mux.Router.Match: the handler of the route whose path and method match;
\* a path that matches with another method is answered 405, no path 404
Match(method, path) ==
  IF \E r \in Routes : r.path = path /\ r.method = method
  THEN (CHOOSE r \in Routes : r.path = path /\ r.method = method).handler
  ELSE IF \E r \in Routes : r.path = path THEN "405" ELSE "404"

CanServe == requests < MaxRequests
\* one request is taken from the listener; serving it takes a clock tick
Accept(method, path, id, body, limit, location, out) ==
  /\ CanServe
  /\ req' = [method |-> method, path |-> path, handler |-> Match(method, path),
             id |-> id, body |-> body, limit |-> limit, location |-> location,
             out |-> out]
  /\ requests' = requests + 1
  /\ now' = now + 1

\* corsMiddleware: the headers are set, OPTIONS is answered without next
corsMiddleware(method, next) ==
  IF method = "OPTIONS"
  THEN /\ resp' = [code |-> 200, status |-> "none", data |-> Nil, cors |-> TRUE]
       /\ handlerRan' = FALSE
       /\ calls' = 0 /\ callFailed' = FALSE
       /\ UNCHANGED <<store, created>>
  ELSE next

\* mux.Router.ServeHTTP for a request that matches a route: the middleware
\* chain of r.Use wraps the route's handler
ServeHTTP(method, path, h, next) ==
  /\ CanServe
  /\ Match(method, path) = h
  /\ corsMiddleware(method, next)

\* mux.Router.ServeHTTP for a request that matches no route: the
\* NotFound/MethodNotAllowed handler answers, no middleware runs
NotRouted(method, path) ==
  /\ CanServe
  /\ Match(method, path) \in {"404", "405"}
  /\ Accept(method, path, Nil, Nil, Nil, Nil, Nil)
  /\ resp' = [code |-> IF Match(method, path) = "405" THEN 405 ELSE 404,
              status |-> "none", data |-> Nil, cors |-> FALSE]
  /\ handlerRan' = FALSE
  /\ calls' = 0 /\ callFailed' = FALSE
  /\ UNCHANGED <<store, created>>

(* ------------------------------ handlers ------------------------------ *)
\* fmt.Sprintf("sensor_%d", data.Timestamp.Unix())
GenerateID(t) == "sensor_" \o ToString(Unix(t))

\* faulty variant: the id is generated from the current time, not from the
\* reading's timestamp
FillDefaults_idFromClock(body, clock) ==
  [body EXCEPT !.Timestamp = IF IsZero(body.Timestamp) THEN clock
                             ELSE body.Timestamp,
               !.ID = IF body.ID = "" THEN GenerateID(clock) ELSE body.ID]
\* createSensorData: defaults for a missing timestamp and id
FillDefaults(body, clock) ==
  LET ts == IF IsZero(body.Timestamp) THEN clock ELSE body.Timestamp
  IN  [body EXCEPT !.Timestamp = ts,
                   !.ID = IF body.ID = "" THEN GenerateID(ts) ELSE body.ID]

\* updateSensorData: the id of the path, default for a missing timestamp
ForceID(body, id, clock) ==
  [body EXCEPT !.ID = id,
               !.Timestamp = IF IsZero(body.Timestamp) THEN clock
                             ELSE body.Timestamp]

\* faulty variant: a failed write is tried once more before the error is reported
WriteAndRespond_retry(data, out, okCode) ==
  LET p == NewPoint(data)
  IN  IF out = "ok"
      THEN /\ Cardinality(WritePoint(store, p)) <= MaxPoints
           /\ store' = WritePoint(store, p)
           /\ calls' = 1 /\ callFailed' = FALSE
           /\ resp' = sendSuccessResponse(okCode, data)
      ELSE /\ calls' = 2 /\ callFailed' = TRUE
           /\ resp' = sendErrorResponse(500)
           /\ UNCHANGED store
\* the write of createSensorData and updateSensorData and its response
WriteAndRespond(data, out, okCode) ==
  LET p == NewPoint(data)
  IN  /\ calls' = 1
      /\ IF out = "ok"
         THEN /\ Cardinality(WritePoint(store, p)) <= MaxPoints
              /\ store' = WritePoint(store, p)
              /\ callFailed' = FALSE
              /\ resp' = sendSuccessResponse(okCode, data)
         ELSE /\ callFailed' = TRUE
              /\ resp' = sendErrorResponse(500)
              /\ UNCHANGED store

createSensorData(body, out) ==
  /\ Accept("POST", Collection, Nil, body, Nil, Nil, out)
  /\ handlerRan' = TRUE
  /\ IF body = Malformed
     THEN /\ resp' = sendErrorResponse(400)
          /\ calls' = 0 /\ callFailed' = FALSE
          /\ UNCHANGED <<store, created>>
     ELSE /\ WriteAndRespond(FillDefaults(body, now), out, 201)
          /\ created' = IF out = "ok" THEN {FillDefaults(body, now)} ELSE {}

updateSensorData(id, body, out) ==
  /\ Accept("PUT", Item, id, body, Nil, Nil, out)
  /\ handlerRan' = TRUE
  /\ IF body = Malformed
     THEN /\ resp' = sendErrorResponse(400)
          /\ calls' = 0 /\ callFailed' = FALSE
          /\ UNCHANGED <<store, created>>
     ELSE /\ WriteAndRespond(ForceID(body, id, now), out, 200)
          /\ created' = {}

\* faulty variant: Delete drops the points of the id
deleteSensorData_drops(id) ==
  /\ Accept("DELETE", Item, id, Nil, Nil, Nil, Nil)
  /\ handlerRan' = TRUE
  /\ resp' = sendErrorResponse(501)
  /\ calls' = 0 /\ callFailed' = FALSE
  /\ store' = store \ FilterSensorID(store, id)
  /\ UNCHANGED created
deleteSensorData(id) ==
  /\ Accept("DELETE", Item, id, Nil, Nil, Nil, Nil)
  /\ handlerRan' = TRUE
  /\ resp' = sendErrorResponse(501)
  /\ calls' = 0 /\ callFailed' = FALSE
  /\ UNCHANGED <<store, created>>

\* the limit query parameters a client sends, and strconv.Atoi of them
LimitParams == {"", "0", "1", "x"}
Atoi(str) ==
  CASE str = "0" -> [err |-> FALSE, l |-> 0]
    [] str = "1" -> [err |-> FALSE, l |-> 1]
    [] OTHER -> [err |-> TRUE, l |-> 0]
DefaultLimit == 100
ParseLimit(limit) ==
  IF limit # "" /\ ~Atoi(limit).err /\ Atoi(limit).l > 0 THEN Atoi(limit).l
  ELSE DefaultLimit
LocationParams == {"", "L1"}
\* outcomes of queryAPI.Query and of reading its result: all rows arrive,
\* Query returns an error (store unreachable, query rejected, context
\* expired), or the stream breaks after some rows (result.Err)
QueryOutcomes == {"ok", "error", "stream_error"}
\* the rows result.Next hands out, the stream breaking after k of them
Delivered(rows, out, k) == IF out = "ok" THEN rows ELSE SubSeq(rows, 1, k)
RowCounts(rows) == 0 .. Len(rows)

getSensorData(limit, location, out) ==
  /\ Accept("GET", Collection, Nil, Nil, limit, location, out)
  /\ handlerRan' = TRUE
  /\ calls' = 1
  /\ UNCHANGED <<store, created>>
  /\ IF out = "error"
     THEN /\ callFailed' = TRUE
          /\ resp' = sendErrorResponse(500)
     ELSE \E rows \in ListQuery(store, now, location, ParseLimit(limit)) :
          \E k \in RowCounts(rows) :
            LET got == Delivered(rows, out, k)
            IN  IF \E i \in 1 .. Len(got) : Panics(got[i])
                THEN /\ callFailed' = FALSE
                     /\ resp' = NoResponse
                ELSE IF out = "stream_error"
                THEN /\ callFailed' = TRUE
                     /\ resp' = sendErrorResponse(500)
                ELSE /\ callFailed' = FALSE
                     /\ resp' = sendSuccessResponse(200,
                                  [i \in 1 .. Len(got) |-> FromRecord(got[i])])

getSensorDataByID(id, out) ==
  /\ Accept("GET", Item, id, Nil, Nil, Nil, out)
  /\ handlerRan' = TRUE
  /\ calls' = 1
  /\ UNCHANGED <<store, created>>
  /\ IF out = "error"
     THEN /\ callFailed' = TRUE
          /\ resp' = sendErrorResponse(500)
     ELSE \E rows \in ByIDQuery(store, now, id) :
          \E k \in RowCounts(rows) :
            LET got == Delivered(rows, out, k)
            IN  IF got = <<>>
                THEN /\ callFailed' = (out = "stream_error")
                     /\ resp' = sendErrorResponse(404)
                ELSE /\ callFailed' = FALSE
                     /\ resp' = IF Panics(got[1]) THEN NoResponse
                                ELSE sendSuccessResponse(200, FromRecord(got[1]))

\* outcomes of client.Health: an error, a timeout, or a status
HealthOutcomes == { [err |-> TRUE, status |-> Nil],
                    [err |-> FALSE, status |-> "pass"],
                    [err |-> FALSE, status |-> "fail"] }
\* faulty variant: the two conditions are joined with "and"
Unhealthy_and(h) == h.err /\ h.status # "pass"
\* the condition healthCheck tests on the outcome
Unhealthy(h) == h.err \/ h.status # "pass"

healthCheck(h) ==
  /\ Accept("GET", "/health", Nil, Nil, Nil, Nil, h)
  /\ handlerRan' = TRUE
  /\ calls' = 1 /\ callFailed' = h.err
  /\ resp' = IF Unhealthy(h) THEN sendErrorResponse(503)
             ELSE sendSuccessResponse(200, "healthy")
  /\ UNCHANGED <<store, created>>

\* the anonymous handler of /test
test ==
  /\ Accept("GET", "/test", Nil, Nil, Nil, Nil, Nil)
  /\ handlerRan' = TRUE
  /\ resp' = [code |-> 200, status |-> "ok", data |-> Nil, cors |-> TRUE]
  /\ calls' = 0 /\ callFailed' = FALSE
  /\ UNCHANGED <<store, created>>

\* ids a client asks for: the known ones and the one Create returned
GetIds == PathIds \cup {c.ID : c \in created}

Init ==
  /\ store = {}
  /\ now = StartTime
  /\ requests = 0
  /\ req = [method |-> "none", path |-> Nil, handler |-> "none", id |-> Nil,
            body |-> Nil, limit |-> Nil, location |-> Nil, out |-> Nil]
  /\ resp = NoResponse
  /\ calls = 0
  /\ callFailed = FALSE
  /\ handlerRan = FALSE
  /\ created = {}

Next ==
  \/ \E m \in Methods :
        ServeHTTP(m, Collection, "createSensorData",
                  \/ createSensorData(Malformed, "ok")
                  \/ \E body \in Bodies(requests), out \in WriteOutcomes :
                        createSensorData(body, out))
  \/ \E m \in Methods :
        ServeHTTP(m, Item, "updateSensorData",
                  \E id \in PathIds :
                     \/ updateSensorData(id, Malformed, "ok")
                     \/ \E body \in Bodies(requests), out \in WriteOutcomes :
                           updateSensorData(id, body, out))
  \/ \E m \in Methods :
        ServeHTTP(m, Collection, "getSensorData",
                  \E limit \in LimitParams, location \in LocationParams,
                     out \in QueryOutcomes : getSensorData(limit, location, out))
  \/ \E m \in Methods :
        ServeHTTP(m, Item, "getSensorDataByID",
                  \E id \in GetIds, out \in QueryOutcomes :
                     getSensorDataByID(id, out))
  \/ \E m \in Methods :
        ServeHTTP(m, Item, "deleteSensorData",
                  \E id \in PathIds : deleteSensorData(id))
  \/ \E m \in Methods :
        ServeHTTP(m, "/health", "healthCheck",
                  \E h \in HealthOutcomes : healthCheck(h))
  \/ \E m \in Methods : ServeHTTP(m, "/test", "test", test)
  \/ \E m \in Methods, path \in Paths : NotRouted(m, path)

Spec == Init /\ [][Next]_vars

(* ------------------------------- claims -------------------------------- *)
\* the clock the handler of the last request read
ServedAt == now - 1
\* the last request was a GetByID of the reading the last Create returned,
\* nothing was written in between, and the query did not fail
FetchedCreated ==
  /\ req.handler = "getSensorDataByID"
  /\ ~callFailed
  /\ \E c \in created : c.ID = req.id
SameReading(d, c) ==
  /\ d.ID = c.ID /\ d.Location = c.Location
  /\ d.M.temperature = c.M.temperature /\ d.M.humidity = c.M.humidity
  /\ d.M.pressure = c.M.pressure /\ d.M.altitude = c.M.altitude
\* the points GetByID's query ranges over
InWindowByID(id) == FilterSensorID(Range(store, ServedAt, Range30d), id)

CreatedIsLatest ==
  \A c \in created :
    /\ c.Location # ""
    /\ c.Timestamp >= ServedAt - Range30d /\ c.Timestamp < ServedAt
    /\ \A p \in InWindowByID(c.ID) :
          p.location = c.Location /\ p.time <= c.Timestamp
C2_ListLimitLocationOrder ==
  (/\ req.handler = "getSensorData"
   /\ resp.status = "success"
   /\ req.location # ""
   /\ ~Atoi(req.limit).err /\ Atoi(req.limit).l > 0) =>
    /\ Len(resp.data) <= Atoi(req.limit).l
    /\ \A i \in 1 .. Len(resp.data) : resp.data[i].Location = req.location
    /\ \A i, j \in 1 .. Len(resp.data) :
          i < j => resp.data[i].Timestamp >= resp.data[j].Timestamp

\* C3: the reading a GetByID returns is the point with the greatest
\* timestamp among the points stored under the id in the last 30 days
C3_ByIDReturnsLatest ==
  (req.handler = "getSensorDataByID" /\ resp.status = "success") =>
    \A p \in InWindowByID(req.id) : p.time <= resp.data.Timestamp

\* C4: a GetByID whose query succeeds and finds no point answers 404 with an
\* error envelope; one whose query or result stream fails answers 500
C4_NotFoundOrStorageError ==
  req.handler = "getSensorDataByID" =>
    /\ (~callFailed /\ FilterSensorID(store, req.id) = {}) =>
          (resp.code = 404 /\ resp.status = "error")
    /\ callFailed => resp.code = 500

\* C5: a Delete answers 501 with an error envelope, issues no store call and
\* leaves the stored points as they were
C5_DeleteNotImplemented ==
  [][(requests' = requests + 1 /\ req'.handler = "deleteSensorData") =>
       /\ resp'.code = 501 /\ resp'.status = "error"
       /\ calls' = 0
       /\ store' = store]_vars
C5_Witness ==
  /\ req.handler = "deleteSensorData"
  /\ FilterSensorID(store, req.id) # {}
  /\ resp.code = 501

\* C6: HealthCheck answers with a success envelope exactly when the health
\* call returned no error and the status "pass", else with an error envelope
C6_HealthyOnlyOnPass ==
  req.handler = "healthCheck" =>
    IF ~req.out.err /\ req.out.status = "pass"
    THEN resp.code = 200 /\ resp.status = "success"
    ELSE resp.status = "error"
C6_Witness ==
  /\ req.handler = "healthCheck"
  /\ ~req.out.err /\ req.out.status = "fail"
  /\ resp.status = "error"

\* C7: a successful Create returns the body's timestamp, or the current time
\* when it has none, and the body's id, or "sensor_<Unix seconds of that
\* timestamp>" when it has none; the point written carries both
C7_CreateDefaults ==
  (req.handler = "createSensorData" /\ resp.status = "success") =>
    LET ts == IF req.body.Timestamp = ZeroTime THEN ServedAt
              ELSE req.body.Timestamp
        id == IF req.body.ID = ""
              THEN "sensor_" \o ToString(ts \div TicksPerSecond)
              ELSE req.body.ID
    IN  /\ resp.data.Timestamp = ts
        /\ resp.data.ID = id
        /\ \E p \in store : p.sensor_id = id /\ p.time = ts
                            /\ p.temperature = req.body.M.temperature
\* a Create with a timestamp but no id
C7_Witness ==
  /\ req.handler = "createSensorData" /\ resp.status = "success"
  /\ req.body.ID = "" /\ req.body.Timestamp = TOld
  /\ resp.data.ID = "sensor_" \o ToString(TOld \div TicksPerSecond)

\* C8: a successful Update adds exactly one point, tagged with the id of the
\* path, and every point stored before is still stored unchanged
C8_UpdateOnlyAdds ==
  [][(requests' = requests + 1 /\ req'.handler = "updateSensorData"
      /\ resp'.status = "success") =>
       /\ \E p \in store' : p.sensor_id = req'.id /\ store' \ store = {p}
       /\ store \subseteq store']_vars

\* C9: an OPTIONS request to a path of the API is answered 200 without the
\* route's handler running and without a store call
C9_OptionsAnswered200 ==
  (req.method = "OPTIONS" /\ \E r \in Routes : r.path = req.path) =>
    /\ resp.code = 200
    /\ ~handlerRan
    /\ calls = 0

\* C10: a request issues at most one store call, none when its body is
\* malformed, which is answered 400; when its store call fails or times out
\* the response is an error envelope
C10_NoRetries ==
  /\ calls <= 1
  /\ (req.handler \in {"createSensorData", "updateSensorData"}
      /\ req.body = Malformed) =>
        (calls = 0 /\ resp.code = 400 /\ resp.status = "error")
  /\ callFailed => (calls = 1 /\ resp.status = "error")
\* a List whose result stream broke
C10_Witness ==
  /\ req.handler = "getSensorData" /\ req.out = "stream_error"
  /\ callFailed /\ resp.code = 500
====
